---- MODULE Spec2Model ----
(***************************************************************************)
(* A model of the type tags (src/typings/mod.rs) and of the source         *)
(* reconstructing ASTPrinter (src/ast/printer.rs).                         *)
(*                                                                         *)
(* The printer is a recursive descent over an arena of statements and      *)
(* expressions.  The recursion is modelled by an explicit call stack: a    *)
(* frame is one invocation of a visit_* callback, and one step of the      *)
(* model runs the top frame from where it stands up to its next recursive  *)
(* visit_expression / visit_statement call (which pushes the callee's      *)
(* frame) or up to its return (which pops it).                             *)
(*                                                                         *)
(* The output string is modelled as a sequence of tokens: one token per    *)
(* style marker (escape sequence), one per literal piece of text, one per  *)
(* blank and one per line break, so that widths can be counted.            *)
(***************************************************************************)
EXTENDS Integers, Sequences, FiniteSets, TLC

VARIABLES
    ast,        \* the tree owner: statement table, expression table, top-level statements
    indent,     \* ASTPrinter.indent
    result,     \* ASTPrinter.result
    stack,      \* the call stack of visit_* callbacks, innermost last
    next,       \* index of the next top-level statement to visit
    last,       \* the frame that returned in the step just taken, or None
    completed,  \* number of visit_statement calls that have returned
    source,     \* Type: receiver of is_assignable_to
    target,     \* Type: argument of is_assignable_to
    literal,    \* &str: argument of from_str
    assignable, \* value returned by is_assignable_to, or Unset
    parsed,     \* value returned by from_str, or Unset
    shown       \* Display rendering of the parsed type, or Unset

vars == <<ast, indent, result, stack, next, last, completed,
          source, target, literal, assignable, parsed, shown>>

printerVars == <<ast, indent, result, stack, next, last, completed>>
typeVars == <<source, target, literal, assignable, parsed, shown>>

(***************************************************************************)
(* Bounds of the model.                                                    *)
(***************************************************************************)
MaxFn == 2       \* function indices 0..MaxFn
MaxArgs == 3     \* a call has 0..MaxArgs arguments
MaxParams == 2   \* a func has 0..MaxParams parameters
MaxDepth == 2    \* blocks nest 1..MaxDepth deep
MaxStmts == 2    \* a block holds 0..MaxStmts statements besides a nested block

None == [none |-> TRUE]
Unset == [unset |-> TRUE]
Some(v) == [some |-> v]
Returned(v) == [ret |-> v]

(***************************************************************************)
(* src/typings/mod.rs                                                      *)
(***************************************************************************)
Type_Int == [tag |-> "Int"]
Type_Bool == [tag |-> "Bool"]
Type_Void == [tag |-> "Void"]
Type_Function(i) == [tag |-> "Function", idx |-> i]
Type_Unresolved == [tag |-> "Unresolved"]
Type_Error == [tag |-> "Error"]

Type ==
    {Type_Int, Type_Bool, Type_Void, Type_Unresolved, Type_Error}
        \cup {Type_Function(i) : i \in 0..MaxFn}

\* impl Display for Type
Display(t) ==
    IF t.tag = "Int" THEN "int"
    ELSE IF t.tag = "Bool" THEN "bool"
    ELSE IF t.tag = "Unresolved" THEN "unresolved"
    ELSE IF t.tag = "Void" THEN "void"
    ELSE IF t.tag = "Function" THEN "function"
    ELSE "?"

\* is_assignable_to without the (_, Type::Error) arm
is_assignable_to_no_target_error(self, other) ==
    IF self.tag = "Int" /\ other.tag = "Int" THEN TRUE
    ELSE IF self.tag = "Bool" /\ other.tag = "Bool" THEN TRUE
    ELSE IF self.tag = "Error" THEN TRUE
    ELSE FALSE

\* Type::is_assignable_to: the match arms in order
is_assignable_to(self, other) ==
    IF self.tag = "Int" /\ other.tag = "Int" THEN TRUE
    ELSE IF self.tag = "Bool" /\ other.tag = "Bool" THEN TRUE
    ELSE IF self.tag = "Error" THEN TRUE
    ELSE IF other.tag = "Error" THEN TRUE
    ELSE FALSE

\* from_str that also accepts the Display rendering of Unresolved
from_str_accepts_unresolved(s) ==
    IF s = "int" THEN Some(Type_Int)
    ELSE IF s = "bool" THEN Some(Type_Bool)
    ELSE IF s = "void" THEN Some(Type_Void)
    ELSE IF s = "unresolved" THEN Some(Type_Unresolved)
    ELSE None

\* Type::from_str
from_str(s) ==
    IF s = "int" THEN Some(Type_Int)
    ELSE IF s = "bool" THEN Some(Type_Bool)
    ELSE IF s = "void" THEN Some(Type_Void)
    ELSE None

\* The literals from_str is tried on: the three type names, the Display
\* renderings of the other tags, and near misses.
Literals == {"int", "bool", "void", "function", "unresolved", "?",
             "", "Int", "BOOL", "integer", "boolean", "unit", " int", "void "}

TypeInit ==
    /\ source \in Type
    /\ target \in Type
    /\ literal \in Literals
    /\ assignable = Unset
    /\ parsed = Unset
    /\ shown = Unset
    /\ ast = [stmts |-> <<>>, exprs |-> <<>>, items |-> <<>>]
    /\ indent = 0
    /\ result = <<>>
    /\ stack = <<>>
    /\ next = 1
    /\ last = None
    /\ completed = 0

CallIsAssignableTo ==
    /\ assignable = Unset
    /\ assignable' = Returned(is_assignable_to(source, target))
    /\ UNCHANGED <<source, target, literal, parsed, shown>>
    /\ UNCHANGED printerVars

CallFromStr ==
    /\ parsed = Unset
    /\ parsed' = from_str(literal)
    /\ UNCHANGED <<source, target, literal, assignable, shown>>
    /\ UNCHANGED printerVars

CallDisplay ==
    /\ parsed # Unset
    /\ parsed # None
    /\ shown = Unset
    /\ shown' = Returned(Display(parsed.some))
    /\ UNCHANGED <<source, target, literal, assignable, parsed>>
    /\ UNCHANGED printerVars

TypeNext == CallIsAssignableTo \/ CallFromStr \/ CallDisplay

SpecType == TypeInit /\ [][TypeNext]_vars

(***************************************************************************)
(* C1: is_assignable_to(source, target) is true exactly for (Int, Int),    *)
(* (Bool, Bool) and every pair with Error in either position; every other  *)
(* pair, Function(i) to Function(i), Void to Void and Unresolved to        *)
(* Unresolved included, is false.                                          *)
(***************************************************************************)
AssignableTable ==
    {<<Type_Int, Type_Int>>, <<Type_Bool, Type_Bool>>}
        \cup {<<Type_Error, t>> : t \in Type}
        \cup {<<s, Type_Error>> : s \in Type}

C1_AssignableMatchesTable ==
    assignable # Unset =>
        (assignable.ret <=> <<source, target>> \in AssignableTable)

C1_Witness ==
    /\ assignable = Returned(TRUE)
    /\ source = Type_Function(1)
    /\ target = Type_Error

(***************************************************************************)
(* C2: from_str returns Some(t) with Display(t) = s for s in               *)
(* {"int", "bool", "void"}, and None for every other literal, the Display  *)
(* renderings "function", "unresolved" and "?" included.                   *)
(***************************************************************************)
C2_FromStrRoundTrip ==
    /\ parsed # Unset =>
          (parsed # None <=> literal \in {"int", "bool", "void"})
    /\ shown # Unset => shown.ret = literal

C2_Witness ==
    /\ literal = "void"
    /\ parsed = Some(Type_Void)
    /\ shown = Returned("void")

(***************************************************************************)
(* The tree (Ast): two tables addressed by identifier, and the top-level   *)
(* statements.  Every node refers to its children by identifier.           *)
(***************************************************************************)
NumberExpr(n) == [kind |-> "Number", number |-> n, ty |-> Type_Unresolved]
BoolExpr(v) == [kind |-> "Boolean", value |-> v, ty |-> Type_Unresolved]
VarExpr(name) == [kind |-> "Variable", identifier |-> name, ty |-> Type_Unresolved]
UnaryExpr(op, operand) ==
    [kind |-> "Unary", operator |-> op, operand |-> operand, ty |-> Type_Unresolved]
BinaryExpr(op, l, r) ==
    [kind |-> "Binary", operator |-> op, left |-> l, right |-> r,
     ty |-> Type_Unresolved]
ParenthesizedExpr(e) ==
    [kind |-> "Parenthesized", expression |-> e, ty |-> Type_Unresolved]
AssignExpr(name, e) ==
    [kind |-> "Assignment", identifier |-> name, expression |-> e,
     ty |-> Type_Unresolved]
CallExpr(callee, args) ==
    [kind |-> "Call", callee |-> callee, arguements |-> args, ty |-> Type_Unresolved]
BlockExpr(stmts) == [kind |-> "Block", stmts |-> stmts, ty |-> Type_Unresolved]
IfExpr(c, t, e) ==
    [kind |-> "If", condition |-> c, then_branch |-> t, else_branch |-> e,
     ty |-> Type_Unresolved]
FuncExpr(params, body) ==
    [kind |-> "Func", parameters |-> params, body |-> body, ty |-> Type_Unresolved]
RecExpr == [kind |-> "Rec", ty |-> Type_Unresolved]
ErrorExpr(text) == [kind |-> "Error", span |-> text, ty |-> Type_Unresolved]

ExprStmt(e) == [kind |-> "Expr", expr |-> e]
ReturnStmt(v) == [kind |-> "Return", return_value |-> v]
WhileStmt(c, b) == [kind |-> "While", condition |-> c, body |-> b]

\* A parameter of a func: its identifier and the literal of its type annotation
FuncDeclParameter(name, type_name) ==
    [identifier |-> name, type_aannotation |-> [type_name |-> type_name]]

Tree(exprs, stmts, items) == [exprs |-> exprs, stmts |-> stmts, items |-> items]

\* f(1, ..., n)
CallProgram(n) ==
    Tree([k \in 1..(n + 2) |->
             IF k = 1 THEN VarExpr("f")
             ELSE IF k <= n + 1 THEN NumberExpr(k - 1)
             ELSE CallExpr(1, [j \in 1..n |-> j + 1])],
         <<ExprStmt(n + 2)>>,
         <<1>>)

ParamName(k) == IF k = 1 THEN "x" ELSE IF k = 2 THEN "y" ELSE "z"
ParamType(k) == IF k <= 2 THEN "int" ELSE "bool"

\* func(x:int, y:int, ...) { return x = y } with p parameters
FuncProgram(p) ==
    Tree(<<VarExpr("y"),
           AssignExpr("x", 1),
           BlockExpr(<<1>>),
           FuncExpr([k \in 1..p |-> FuncDeclParameter(ParamName(k), ParamType(k))], 3)>>,
         <<ReturnStmt(Some(2)), ExprStmt(4)>>,
         <<2>>)

AddExpr(t, e) == [t EXCEPT !.exprs = Append(@, e)]
AddStmt(t, s) == [t EXCEPT !.stmts = Append(@, s)]

RECURSIVE AddSimple(_, _)
\* k more statements `a`
AddSimple(t, k) ==
    IF k = 0 THEN t
    ELSE LET t1 == AddExpr(AddSimple(t, k - 1), VarExpr("a"))
         IN  AddStmt(t1, ExprStmt(Len(t1.exprs)))

RECURSIVE NestedBlock(_, _, _)
\* t with, as its last expression, a block nested d deep; every block holds
\* k statements `a`, and, after the first of them, the block nested in it.
NestedBlock(t, d, k) ==
    LET t1 == IF d > 1
              THEN LET n == NestedBlock(t, d - 1, k)
                   IN  AddStmt(n, ExprStmt(Len(n.exprs)))
              ELSE t
        inner == IF d > 1 THEN <<Len(t1.stmts)>> ELSE <<>>
        t2 == AddSimple(t1, k)
        simple == [j \in 1..k |-> Len(t1.stmts) + j]
        stmts == IF k = 0 THEN inner
                 ELSE <<simple[1]>> \o inner \o SubSeq(simple, 2, k)
    IN  AddExpr(t2, BlockExpr(stmts))

BlockProgram(d, k) ==
    LET t == NestedBlock(Tree(<<>>, <<>>, <<>>), d, k)
        t1 == AddStmt(t, ExprStmt(Len(t.exprs)))
    IN  [t1 EXCEPT !.items = <<Len(t1.stmts)>>]

\* while a < 1 { b = -a }
\* if true { (a) } else { rec }
\* if false { return }
\* @
\* f(g(), 2)
MixedProgram ==
    Tree(<<VarExpr("a"), NumberExpr(1), BinaryExpr("<", 1, 2),
           VarExpr("a"), UnaryExpr("-", 4), AssignExpr("b", 5), BlockExpr(<<1>>),
           BoolExpr(TRUE), VarExpr("a"), ParenthesizedExpr(9), BlockExpr(<<3>>),
           RecExpr, BlockExpr(<<4>>), IfExpr(8, 11, Some(13)),
           BoolExpr(FALSE), BlockExpr(<<6>>), IfExpr(15, 16, None),
           ErrorExpr("@"),
           VarExpr("f"), VarExpr("g"), CallExpr(20, <<>>), NumberExpr(2),
           CallExpr(19, <<21, 22>>)>>,
         <<ExprStmt(6), WhileStmt(3, 7), ExprStmt(10), ExprStmt(12), ExprStmt(14),
           ReturnStmt(None), ExprStmt(17), ExprStmt(18), ExprStmt(23)>>,
         <<2, 5, 7, 8, 9>>)

Programs ==
    {CallProgram(n) : n \in 0..MaxArgs}
        \cup {FuncProgram(p) : p \in 0..MaxParams}
        \cup {BlockProgram(d, k) : d \in 1..MaxDepth, k \in 0..MaxStmts}
        \cup {MixedProgram}

(***************************************************************************)
(* src/ast/printer.rs: the output tokens and the add_* helpers.  A helper  *)
(* is an operator from the output before it to the output after it.        *)
(***************************************************************************)
NUMBER_COLOR == "<Cyan>"
TEXT_COLOR == "<LightWhite>"
KEYWORD_COLOR == "<Magenta>"
VARIABLE_COLOR == "<Green>"
BOOLEAN_COLOR == "<Yellow>"
TYPE_COLOR == "<LightBlue>"
FgReset == "<Reset>"

Colors == {NUMBER_COLOR, TEXT_COLOR, KEYWORD_COLOR, VARIABLE_COLOR,
           BOOLEAN_COLOR, TYPE_COLOR}
Markers == Colors \cup {FgReset}

\* the blanks that follow the line break inside add_newline's string literal
NewlineTrail == 8
\* the blanks add_padding pushes per level of indent
IndentUnit == 1

Blanks(n) == [k \in 1..n |-> " "]

add_whitespace(r) == Append(r, " ")

add_newline(r) == r \o <<"\n">> \o Blanks(NewlineTrail)

add_keyword(r, keyword) == r \o <<KEYWORD_COLOR, keyword>>

add_text(r, text) == r \o <<TEXT_COLOR, text>>

add_variable(r, variable) == r \o <<VARIABLE_COLOR, variable>>

RECURSIVE trim_end(_)
\* r without the blanks it ends with
trim_end(r) ==
    IF r = <<>> \/ r[Len(r)] # " " THEN r
    ELSE trim_end(SubSeq(r, 1, Len(r) - 1))

\* add_padding that first drops the blanks the line already ends with
add_padding_after_trim(r, ind) == trim_end(r) \o Blanks(IndentUnit * ind)

add_padding(r, ind) == r \o Blanks(IndentUnit * ind)

\* format!("{}", boolean)
FormatBool(b) == IF b THEN "true" ELSE "false"

add_boolean(r, boolean) == r \o <<BOOLEAN_COLOR, FormatBool(boolean)>>

add_type(r, type_) == r \o <<TYPE_COLOR, type_>>

\* add_type_annotation with the blank before the colon instead of after it
add_type_annotation_blank_first(r, type_annotation) ==
    add_type(add_text(add_whitespace(r), ":"), type_annotation.type_name)

add_type_annotation(r, type_annotation) ==
    add_type(add_whitespace(add_text(r, ":")), type_annotation.type_name)

\* ASTPrinter::new
new == [indent |-> 0, result |-> <<>>]

(***************************************************************************)
(* The call stack.  A frame is one invocation of a callback: fn the        *)
(* callback, id the node it was given, pc where it stands, i its loop      *)
(* index.  entry (indent when it was called), start (length of the output  *)
(* when it was called) and cuts (for each callee that returned to it, the  *)
(* callee and the part of the output the callee wrote) record the history  *)
(* of the invocation; no callback reads them.                              *)
(***************************************************************************)
Top == stack[Len(stack)]

Frame(fn, id, ind, r) ==
    [fn |-> fn, id |-> id, pc |-> 0, i |-> 1,
     entry |-> ind, start |-> Len(r), cuts |-> <<>>]

\* ASTVisitor::visit_expression / do_visit_expression: the callback of the
\* expression's shape
ExprCallback(kind) ==
    CASE kind = "Number" -> "visit_number_expression"
      [] kind = "Boolean" -> "visit_boolean_expression"
      [] kind = "Variable" -> "visit_variable_expression"
      [] kind = "Unary" -> "visit_unary_expression"
      [] kind = "Binary" -> "visit_binary_expression"
      [] kind = "Parenthesized" -> "visit_parenthesized_expression"
      [] kind = "Assignment" -> "visit_assignment_expression"
      [] kind = "Call" -> "visit_call_expression"
      [] kind = "Block" -> "visit_block_expr"
      [] kind = "If" -> "visit_if_expression"
      [] kind = "Func" -> "visit_func_expr"
      [] kind = "Rec" -> "visit_rec_expression"
      [] kind = "Error" -> "visit_error"

visit_expression(a, id, ind, r) ==
    Frame(ExprCallback(a.exprs[id].kind), id, ind, r)

\* ASTVisitor::do_visit_statement: an expression statement visits its
\* expression; return and while have their own callbacks
do_visit_statement(a, id, ind, r) ==
    LET stmt == a.stmts[id]
    IN  CASE stmt.kind = "Expr" -> visit_expression(a, stmt.expr, ind, r)
          [] stmt.kind = "Return" -> Frame("visit_return_statement", id, ind, r)
          [] stmt.kind = "While" -> Frame("visit_while_statment", id, ind, r)

\* The top frame calls `callee`, having written up to r and set indent to
\* ind; it will resume at pc.
Calls(r, ind, pc, i, callee) ==
    /\ result' = r
    /\ indent' = ind
    /\ stack' = [stack EXCEPT ![Len(stack)] = [@ EXCEPT !.pc = pc, !.i = i]]
                    \o <<callee>>
    /\ last' = None
    /\ completed' = completed

\* The top frame returns, having written up to r and set indent to ind.
Returns(r, ind) ==
    LET f == Top
        cut == [fn |-> f.fn, id |-> f.id, from |-> f.start, to |-> Len(r)]
        rest == SubSeq(stack, 1, Len(stack) - 1)
    IN  /\ result' = r
        /\ indent' = ind
        /\ stack' = IF rest = <<>> THEN rest
                    ELSE [rest EXCEPT ![Len(rest)] =
                             [@ EXCEPT !.cuts = Append(@, cut)]]
        /\ last' = [fn |-> f.fn, id |-> f.id, entry |-> f.entry,
                    start |-> f.start, end |-> Len(r), cuts |-> f.cuts]
        /\ completed' = IF f.fn = "visit_statement" THEN completed + 1
                        ELSE completed

Running(fn) == stack # <<>> /\ Top.fn = fn

Init ==
    /\ ast \in Programs
    /\ indent = new.indent
    /\ result = new.result
    /\ stack = <<>>
    /\ next = 1
    /\ last = None
    /\ completed = 0
    /\ source = Type_Int
    /\ target = Type_Int
    /\ literal = ""
    /\ assignable = Unset
    /\ parsed = Unset
    /\ shown = Unset

\* Ast::visit: the top-level statements, in order
visit ==
    /\ stack = <<>>
    /\ next <= Len(ast.items)
    /\ stack' = <<Frame("visit_statement", ast.items[next], indent, result)>>
    /\ next' = next + 1
    /\ last' = None
    /\ UNCHANGED <<ast, indent, result, completed>>
    /\ UNCHANGED typeVars

(***************************************************************************)
(* impl ASTVisitor for ASTPrinter: one action per callback.                *)
(***************************************************************************)
Frozen == UNCHANGED <<ast, next>> /\ UNCHANGED typeVars

RECURSIVE func_parameters(_, _, _)
\* the loop over decl.parameters of visit_func_expr, from parameter i on
func_parameters(r, parameters, i) ==
    IF i > Len(parameters) THEN r
    ELSE LET r1 == IF i # 1 THEN add_whitespace(add_text(r, ",")) ELSE r
             r2 == add_text(r1, parameters[i].identifier)
             r3 == add_type_annotation(r2, parameters[i].type_aannotation)
         IN  func_parameters(r3, parameters, i + 1)

\* visit_func_expr up to its visit of the body
func_header(r, parameters) ==
    LET are_parameters_empty == Len(parameters) = 0
        r1 == add_whitespace(add_keyword(r, "func"))
        r2 == IF ~are_parameters_empty THEN add_text(r1, "(")
              ELSE add_whitespace(r1)
        r3 == func_parameters(r2, parameters, 1)
    IN  IF ~are_parameters_empty THEN add_whitespace(add_text(r3, ")")) ELSE r3

visit_func_expr ==
    /\ Running("visit_func_expr")
    /\ LET f == Top
           func_expr == ast.exprs[f.id]
       IN  IF f.pc = 0
           THEN LET r == func_header(result, func_expr.parameters)
                IN  Calls(r, indent, 1, f.i,
                          visit_expression(ast, func_expr.body, indent, r))
           ELSE Returns(result, indent)
    /\ Frozen

visit_return_statement ==
    /\ Running("visit_return_statement")
    /\ LET f == Top
           return_statement == ast.stmts[f.id]
       IN  IF f.pc = 0
           THEN LET r == add_keyword(result, "return")
                IN  IF return_statement.return_value # None
                    THEN LET r1 == add_whitespace(r)
                         IN  Calls(r1, indent, 1, f.i,
                                   visit_expression(ast,
                                       return_statement.return_value.some,
                                       indent, r1))
                    ELSE Returns(r, indent)
           ELSE Returns(result, indent)
    /\ Frozen

visit_while_statment ==
    /\ Running("visit_while_statment")
    /\ LET f == Top
           while_statement == ast.stmts[f.id]
       IN  IF f.pc = 0
           THEN LET r == add_whitespace(add_keyword(result, "while"))
                IN  Calls(r, indent, 1, f.i,
                          visit_expression(ast, while_statement.condition, indent, r))
           ELSE IF f.pc = 1
           THEN LET r == add_whitespace(result)
                IN  Calls(r, indent, 2, f.i,
                          visit_expression(ast, while_statement.body, indent, r))
           ELSE Returns(result, indent)
    /\ Frozen

\* visit_block_expr without `self.indent -= 1`
visit_block_expr_no_decrement ==
    /\ Running("visit_block_expr")
    /\ LET f == Top
           block_statement == ast.exprs[f.id]
           r0 == IF f.pc = 0 THEN add_newline(add_text(result, "{")) ELSE result
           ind0 == IF f.pc = 0 THEN indent + 1 ELSE indent
       IN  IF f.i <= Len(block_statement.stmts)
           THEN Calls(r0, ind0, 1, f.i + 1,
                      Frame("visit_statement", block_statement.stmts[f.i], ind0, r0))
           ELSE Returns(add_text(add_padding(r0, ind0), "}"), ind0)
    /\ Frozen

visit_block_expr ==
    /\ Running("visit_block_expr")
    /\ LET f == Top
           block_statement == ast.exprs[f.id]
           \* the head of the callback, when it has not run yet
           r0 == IF f.pc = 0 THEN add_newline(add_text(result, "{")) ELSE result
           ind0 == IF f.pc = 0 THEN indent + 1 ELSE indent
       IN  IF f.i <= Len(block_statement.stmts)
           THEN Calls(r0, ind0, 1, f.i + 1,
                      Frame("visit_statement", block_statement.stmts[f.i], ind0, r0))
           ELSE LET ind1 == ind0 - 1
                IN  Returns(add_text(add_padding(r0, ind1), "}"), ind1)
    /\ Frozen

visit_if_expression ==
    /\ Running("visit_if_expression")
    /\ LET f == Top
           if_statement == ast.exprs[f.id]
       IN  IF f.pc = 0
           THEN LET r == add_whitespace(add_keyword(result, "if"))
                IN  Calls(r, indent, 1, f.i,
                          visit_expression(ast, if_statement.condition, indent, r))
           ELSE IF f.pc = 1
           THEN LET r == add_whitespace(result)
                IN  Calls(r, indent, 2, f.i,
                          visit_expression(ast, if_statement.then_branch, indent, r))
           ELSE IF f.pc = 2 /\ if_statement.else_branch # None
           THEN LET r == add_whitespace(add_keyword(add_whitespace(result), "else"))
                IN  Calls(r, indent, 3, f.i,
                          visit_expression(ast, if_statement.else_branch.some,
                                           indent, r))
           ELSE Returns(result, indent)
    /\ Frozen

\* the line end without the reset marker
statement_end_no_reset(r) == r \o <<"\n">>

\* the statement's line end: format!("{}\n", Fg(Reset))
statement_end(r) == r \o <<FgReset, "\n">>

visit_statement ==
    /\ Running("visit_statement")
    /\ LET f == Top
       IN  IF f.pc = 0
           THEN LET r == add_padding(result, indent)
                IN  Calls(r, indent, 1, f.i, do_visit_statement(ast, f.id, indent, r))
           ELSE Returns(statement_end(result), indent)
    /\ Frozen

visit_rec_expression ==
    /\ Running("visit_rec_expression")
    /\ Returns(add_keyword(result, "rec"), indent)
    /\ Frozen

\* the separator without its blank
call_separator_no_blank(r, i) ==
    IF i # 1 THEN add_text(r, ",") ELSE r

\* what visit_call_expression writes before argument i (counted from 1)
call_separator(r, i) ==
    IF i # 1 THEN add_whitespace(add_text(r, ",")) ELSE r

visit_call_expression ==
    /\ Running("visit_call_expression")
    /\ LET f == Top
           call_expression == ast.exprs[f.id]
       IN  IF f.pc = 0
           THEN Calls(result, indent, 1, f.i,
                      visit_expression(ast, call_expression.callee, indent, result))
           ELSE LET r0 == IF f.pc = 1 THEN add_text(result, "(") ELSE result
                IN  IF f.i <= Len(call_expression.arguements)
                    THEN LET r == call_separator(r0, f.i)
                         IN  Calls(r, indent, 2, f.i + 1,
                                   visit_expression(ast,
                                       call_expression.arguements[f.i], indent, r))
                    ELSE Returns(add_text(r0, ")"), indent)
    /\ Frozen

visit_assignment_expression ==
    /\ Running("visit_assignment_expression")
    /\ LET f == Top
           assignment_expression == ast.exprs[f.id]
       IN  IF f.pc = 0
           THEN LET r == add_whitespace(add_text(add_whitespace(
                             add_variable(result, assignment_expression.identifier)),
                             "="))
                IN  Calls(r, indent, 1, f.i,
                          visit_expression(ast, assignment_expression.expression,
                                           indent, r))
           ELSE Returns(result, indent)
    /\ Frozen

visit_variable_expression ==
    /\ Running("visit_variable_expression")
    /\ Returns(result \o <<VARIABLE_COLOR, ast.exprs[Top.id].identifier>>, indent)
    /\ Frozen

\* visit_number_expression that also records the type of the literal in the tree
visit_number_expression_annotating ==
    /\ Running("visit_number_expression")
    /\ Returns(result \o <<NUMBER_COLOR, ToString(ast.exprs[Top.id].number)>>, indent)
    /\ ast' = [ast EXCEPT !.exprs[Top.id].ty = Type_Int]
    /\ UNCHANGED next
    /\ UNCHANGED typeVars

visit_number_expression ==
    /\ Running("visit_number_expression")
    /\ Returns(result \o <<NUMBER_COLOR, ToString(ast.exprs[Top.id].number)>>, indent)
    /\ Frozen

visit_boolean_expression ==
    /\ Running("visit_boolean_expression")
    /\ Returns(add_boolean(result, ast.exprs[Top.id].value), indent)
    /\ Frozen

visit_error ==
    /\ Running("visit_error")
    /\ Returns(result \o <<TEXT_COLOR, ast.exprs[Top.id].span>>, indent)
    /\ Frozen

visit_unary_expression ==
    /\ Running("visit_unary_expression")
    /\ LET f == Top
           unary_expression == ast.exprs[f.id]
       IN  IF f.pc = 0
           THEN LET r == result \o <<TEXT_COLOR, unary_expression.operator>>
                IN  Calls(r, indent, 1, f.i,
                          visit_expression(ast, unary_expression.operand, indent, r))
           ELSE Returns(result, indent)
    /\ Frozen

visit_binary_expression ==
    /\ Running("visit_binary_expression")
    /\ LET f == Top
           binary_expression == ast.exprs[f.id]
       IN  IF f.pc = 0
           THEN Calls(result, indent, 1, f.i,
                      visit_expression(ast, binary_expression.left, indent, result))
           ELSE IF f.pc = 1
           THEN LET r == add_whitespace(add_whitespace(result)
                             \o <<TEXT_COLOR, binary_expression.operator>>)
                IN  Calls(r, indent, 2, f.i,
                          visit_expression(ast, binary_expression.right, indent, r))
           ELSE Returns(result, indent)
    /\ Frozen

visit_parenthesized_expression ==
    /\ Running("visit_parenthesized_expression")
    /\ LET f == Top
           parenthesized_expression == ast.exprs[f.id]
       IN  IF f.pc = 0
           THEN LET r == result \o <<TEXT_COLOR, "(">>
                IN  Calls(r, indent, 1, f.i,
                          visit_expression(ast, parenthesized_expression.expression,
                                           indent, r))
           ELSE Returns(result \o <<TEXT_COLOR, ")">>, indent)
    /\ Frozen

Next ==
    \/ visit
    \/ visit_func_expr
    \/ visit_return_statement
    \/ visit_while_statment
    \/ visit_block_expr
    \/ visit_if_expression
    \/ visit_statement
    \/ visit_rec_expression
    \/ visit_call_expression
    \/ visit_assignment_expression
    \/ visit_variable_expression
    \/ visit_number_expression
    \/ visit_boolean_expression
    \/ visit_error
    \/ visit_unary_expression
    \/ visit_binary_expression
    \/ visit_parenthesized_expression

Spec == Init /\ [][Next]_vars

\* the traversal is over: every top-level statement was visited
Done == stack = <<>> /\ next > Len(ast.items)

\* the output without its style markers
Strip(r) == SelectSeq(r, LAMBDA t : t \notin Markers)

(***************************************************************************)
(* Helpers of the properties.                                              *)
(***************************************************************************)
\* the tokens of r after position from, up to position to
Piece(r, from, to) == SubSeq(r, from + 1, to)

IsPrefix(a, b) == Len(a) <= Len(b) /\ SubSeq(b, 1, Len(a)) = a

RECURSIVE TrailingBlanks(_)
\* the number of blanks r ends with
TrailingBlanks(r) ==
    IF r = <<>> \/ r[Len(r)] # " " THEN 0
    ELSE 1 + TrailingBlanks(SubSeq(r, 1, Len(r) - 1))

Returned_from(fn) == last # None /\ last.fn = fn

\* a statement of a block has written its padding and is about to write its
\* first token
StatementOfBlockStarts ==
    /\ Len(stack) >= 3
    /\ Top.pc = 0
    /\ Top.start = Len(result)
    /\ stack[Len(stack) - 1].fn = "visit_statement"
    /\ stack[Len(stack) - 1].pc = 1
    /\ stack[Len(stack) - 2].fn = "visit_block_expr"

(***************************************************************************)
(* C3: for every statement rendered inside a block, first or later, the    *)
(* run of blanks between the preceding line break and the statement's      *)
(* first token is exactly one indent unit times the nesting depth (indent  *)
(* when visit_statement was entered).                                      *)
(***************************************************************************)
C3_StatementPaddingExact ==
    StatementOfBlockStarts =>
        TrailingBlanks(result) = IndentUnit * stack[Len(stack) - 1].entry

(***************************************************************************)
(* C4 as claimed: the header of a func with parameters is keyword `func`,  *)
(* a blank, `(`, the parameters separated by `, `, each rendered as        *)
(* variable-styled identifier, blank, `:`, blank, type-styled type         *)
(* literal, then `)` and a blank.                                          *)
(***************************************************************************)
FuncHeader == Piece(result, last.start, last.cuts[1].from)

C4_ParameterSpacedColon ==
    (Returned_from("visit_func_expr") /\ ast.exprs[last.id].parameters # <<>>) =>
        LET parameters == ast.exprs[last.id].parameters
            n == Len(parameters)
            h == FuncHeader
            at(k) == 5 + (k - 1) * 11
        IN  /\ Len(h) = 5 + 11 * n
            /\ Piece(h, 0, 5) = <<KEYWORD_COLOR, "func", " ", TEXT_COLOR, "(">>
            /\ \A k \in 1..n :
                  /\ Piece(h, at(k), at(k) + 8) =
                        <<VARIABLE_COLOR, parameters[k].identifier, " ",
                          TEXT_COLOR, ":", " ",
                          TYPE_COLOR, parameters[k].type_aannotation.type_name>>
                  /\ k < n => Piece(h, at(k) + 8, at(k) + 11) = <<TEXT_COLOR, ",", " ">>
            /\ Piece(h, Len(h) - 3, Len(h)) = <<TEXT_COLOR, ")", " ">>

(***************************************************************************)
(* C4 amended: the header of a func with parameters is keyword `func`, a   *)
(* blank, `(`, the parameters separated by `, `, each rendered as          *)
(* text-styled identifier, text-styled `:` right after it, a blank, and    *)
(* the type-styled type literal, then `)`, a blank, and the body; the tree *)
(* of `func(x:int, y:int) { return x = y }` renders with the header text   *)
(* `func (x: int, y: int) {`.                                              *)
(***************************************************************************)
C4_ParameterColonThenBlank ==
    (Returned_from("visit_func_expr") /\ ast.exprs[last.id].parameters # <<>>) =>
        LET func_expr == ast.exprs[last.id]
            parameters == func_expr.parameters
            n == Len(parameters)
            h == FuncHeader
            at(k) == 5 + (k - 1) * 10
        IN  /\ Len(h) = 5 + 10 * n
            /\ Piece(h, 0, 5) = <<KEYWORD_COLOR, "func", " ", TEXT_COLOR, "(">>
            /\ \A k \in 1..n :
                  /\ Piece(h, at(k), at(k) + 7) =
                        <<TEXT_COLOR, parameters[k].identifier,
                          TEXT_COLOR, ":", " ",
                          TYPE_COLOR, parameters[k].type_aannotation.type_name>>
                  /\ k < n => Piece(h, at(k) + 7, at(k) + 10) = <<TEXT_COLOR, ",", " ">>
            /\ Piece(h, Len(h) - 3, Len(h)) = <<TEXT_COLOR, ")", " ">>
            /\ Len(last.cuts) = 1
            /\ last.cuts[1].id = func_expr.body
            /\ last.cuts[1].to = last.end
            /\ ast = FuncProgram(2) =>
                  Strip(Piece(result, last.start, last.cuts[1].from + 2)) =
                      <<"func", " ", "(", "x", ":", " ", "int", ",", " ",
                        "y", ":", " ", "int", ")", " ", "{">>

C4_Witness ==
    /\ Returned_from("visit_func_expr")
    /\ ast = FuncProgram(2)

(***************************************************************************)
(* C5: a block is rendered as exactly `{`, one line break and nothing      *)
(* else, then each statement in declaration order as padding, statement    *)
(* and line break, then padding at the outer depth, then `}`, with no line *)
(* break after the brace.                                                  *)
(***************************************************************************)
C5_BlockLayoutExact ==
    Returned_from("visit_block_expr") =>
        LET stmts == ast.exprs[last.id].stmts
            n == Len(stmts)
            cuts == last.cuts
            bodyFrom == last.start + 3
            bodyTo == IF n = 0 THEN bodyFrom ELSE cuts[n].to
        IN  /\ Len(cuts) = n
            /\ Piece(result, last.start, bodyFrom) = <<TEXT_COLOR, "{", "\n">>
            /\ n > 0 => cuts[1].from = bodyFrom
            /\ \A k \in 1..n :
                  /\ cuts[k].fn = "visit_statement"
                  /\ cuts[k].id = stmts[k]
                  /\ k < n => cuts[k + 1].from = cuts[k].to
                  /\ Piece(result, cuts[k].from,
                           cuts[k].from + IndentUnit * (last.entry + 1)) =
                        Blanks(IndentUnit * (last.entry + 1))
                  /\ result[cuts[k].from + IndentUnit * (last.entry + 1) + 1] # " "
                  /\ result[cuts[k].to] = "\n"
            /\ Piece(result, bodyTo, last.end) =
                  Blanks(IndentUnit * last.entry) \o <<TEXT_COLOR, "}">>

(***************************************************************************)
(* C6: a call is rendered, style markers stripped, as the callee, then `(` *)
(* with no blank before it, then the arguments in order separated by       *)
(* exactly `, `, then `)`; f with arguments 1 and 2 renders as `f(1, 2)`.  *)
(***************************************************************************)
C6_CallLayout ==
    Returned_from("visit_call_expression") =>
        LET call_expression == ast.exprs[last.id]
            args == call_expression.arguements
            n == Len(args)
            cuts == last.cuts
        IN  /\ Len(cuts) = n + 1
            /\ cuts[1].id = call_expression.callee
            /\ cuts[1].from = last.start
            /\ \A k \in 1..n :
                  /\ cuts[k + 1].id = args[k]
                  /\ Strip(Piece(result, cuts[k].to, cuts[k + 1].from)) =
                        IF k = 1 THEN <<"(">> ELSE <<",", " ">>
            /\ Strip(Piece(result, cuts[n + 1].to, last.end)) =
                  IF n = 0 THEN <<"(", ")">> ELSE <<")">>
            /\ ast = CallProgram(2) =>
                  Strip(Piece(result, last.start, last.end)) =
                      <<"f", "(", "1", ",", " ", "2", ")">>

C6_Witness ==
    /\ Returned_from("visit_call_expression")
    /\ ast = CallProgram(2)

(***************************************************************************)
(* C7: the number of reset markers in the output equals the number of      *)
(* visit_statement calls that have completed, top-level and nested; every  *)
(* reset marker is immediately followed by a line break; so no expression  *)
(* callback writes one.                                                    *)
(***************************************************************************)
Resets(r) == Len(SelectSeq(r, LAMBDA t : t = FgReset))

C7_ResetOncePerStatement ==
    /\ Resets(result) = completed
    /\ \A k \in 1..Len(result) :
          result[k] = FgReset => (k < Len(result) /\ result[k + 1] = "\n")

C7_Witness ==
    /\ Returned_from("visit_statement")
    /\ Len(stack) >= 2
    /\ completed >= 3

(***************************************************************************)
(* C8: the output is append-only: at every step of a traversal the output  *)
(* before the step is a prefix of the output after it.                     *)
(***************************************************************************)
C8_AppendOnly == [][IsPrefix(result, result')]_vars

C8_Witness ==
    /\ Returned_from("visit_block_expr")
    /\ last.start > 0
    /\ Len(result) > last.start + NewlineTrail

(***************************************************************************)
(* C9: the printer leaves the tree alone: no step of a traversal changes   *)
(* the statement table or the expression table, shapes or annotations.     *)
(***************************************************************************)
C9_TreeUnchanged == [][ast' = ast]_vars

C9_Witness ==
    /\ Done
    /\ ast = MixedProgram
    /\ result # <<>>

(***************************************************************************)
(* C10: indent is balanced: it is never negative, it equals the number of  *)
(* blocks whose body is being visited, and when a callback returns it      *)
(* equals its value when the callback was entered.                         *)
(***************************************************************************)
BlocksInBody ==
    {k \in 1..Len(stack) : stack[k].fn = "visit_block_expr" /\ stack[k].pc >= 1}

C10_IndentBalanced ==
    /\ indent >= 0
    /\ indent = Cardinality(BlocksInBody)
    /\ last # None => indent = last.entry
    /\ Done => indent = new.indent

C10_Witness ==
    /\ Returned_from("visit_block_expr")
    /\ last.entry >= 1
    /\ indent = last.entry

====
